---- MODULE Spec2Model ----
(***************************************************************************)
(* AirQualityPredict: the offline feature pipeline (collect_data.py,       *)
(* preprocess.py, train.py) and the online inference adapter (app.py).     *)
(*                                                                         *)
(* Units.  PM2.5 concentrations are carried as integers in tenths of a     *)
(* microgram per cubic metre (12.3 ug/m3 is 123), which is the precision   *)
(* the pipeline rounds every stored value to.  A raw model output is       *)
(* carried in hundredths, so that rounding to one decimal does something.  *)
(* A calendar date is its day number in 2022 (1 is 2022-01-01, DATE_FROM). *)
(* NaN is the missing value pandas puts in a shifted or short window cell. *)
(***************************************************************************)
EXTENDS Integers, Sequences, FiniteSets, TLC

VARIABLES
    raw,            \* RAW_DATA_PATH: the set of Measurement rows of the raw CSV
    df,             \* preprocess.py __main__: the table being transformed
    pc,             \* position of the offline run (preprocess.py, then train.py)
    dropna_index,   \* clean_and_save: index labels left by dropna, before reset_index
    csv,            \* PROCESSED_DATA_PATH: header and rows of the processed CSV
    X, y,           \* train.py load_data: features and target
    X_train, X_test, y_train, y_test,   \* chronological_split
    artifact,       \* MODEL_PATH on disk: "missing", "valid" or "corrupt"
    proc,           \* the serving process: "starting", "serving" or "crashed"
    model,          \* app.py global: "unset", "None" or "forest"
    request,        \* the last request handled, "none" before any
    row_of_request, \* the training row the last request was copied from, 0 if none
    features,       \* the vector the last predict() passed to model.predict
    prediction,     \* what model.predict returned for it, in hundredths
    response,       \* the last response returned
    cpc,            \* position of collect_data.py __main__
    use_sample,     \* "--sample" in sys.argv
    page,           \* fetch_from_openaq: page
    all_results,    \* fetch_from_openaq: len(all_results)
    fetched,        \* what fetch_from_openaq gave back: "pending", "None", "df", "raised"
    generated,      \* number of calls of generate_sample_data
    saved,          \* what save_raw_data wrote: "nothing", "api", "synthetic"
    aqi_in,         \* argument of pm25_to_aqi_category
    aqi_out         \* its result, "none" before the call

offline == <<raw, df, pc, dropna_index, csv, X, y, X_train, X_test, y_train, y_test>>
serving == <<artifact, proc, model, request, row_of_request, features, prediction, response>>
collect == <<cpc, use_sample, page, all_results, fetched, generated, saved>>
aqi     == <<aqi_in, aqi_out>>
vars    == <<offline, serving, collect, aqi>>

----------------------------------------------------------------------------
(* Bounds of the model *)

MaxDate == 12        \* number of calendar days the raw source may cover
FirstDay == 22       \* day number of the first of them (2022-01-22)
MaxProfile == 2      \* number of measurement profiles the raw source draws from
MaxRaw == 12         \* largest magnitude of a raw model output, in hundredths
MaxPages == 4        \* pages of the measurement API that are looked at
MaxPageSize == 3     \* records on one page of the measurement API
MaxAqiInput == 2600  \* largest argument of pm25_to_aqi_category, in tenths

NaN == -1

----------------------------------------------------------------------------
(* config.py *)

TEST_SIZE_PCT == 20

FEATURE_COLUMNS ==
    << "pm25", "pm25_lag_1", "pm25_lag_2", "pm25_lag_7",
       "pm25_rolling_3", "pm25_rolling_7", "day_of_week", "month" >>

TARGET_COLUMN == "pm25_next_day"

----------------------------------------------------------------------------
(* The raw measurement source (collect_data.py): rows of                   *)
(* {datetime, value, location, unit}; location and unit are never read by  *)
(* the pipeline and are left out.  A datetime is <<day, hour>>.            *)

HoursOf(d, p) == IF (d + p) % 2 = 0 THEN {0} ELSE {0, 12}

Reading(d, h, p) == ((d * 37 + h * 11 + p * 53) % 97) + 1

Measurements(present, p) ==
    UNION { { [datetime |-> <<d, h>>, value |-> Reading(d, h, p)] : h \in HoursOf(d, p) }
            : d \in present }

Days == FirstDay .. (FirstDay + MaxDate - 1)

----------------------------------------------------------------------------
(* Calendar, pandas .dt.dayofweek and .dt.month, for the days of 2022 *)

MonthEnds == << 31, 59, 90, 120, 151, 181, 212, 243, 273, 304, 334, 365 >>

dayofweek(d) == (d + 4) % 7

month(d) == CHOOSE m \in 1..12 : d <= MonthEnds[m] /\ (m = 1 \/ d > MonthEnds[m - 1])

----------------------------------------------------------------------------
(* pandas / numpy primitives used by preprocess.py *)

RECURSIVE SumValues(_)
SumValues(S) ==
    IF S = {} THEN 0
    ELSE LET m == CHOOSE m \in S : TRUE IN m.value + SumValues(S \ {m})

RECURSIVE SumSeq(_)
SumSeq(s) == IF s = <<>> THEN 0 ELSE Head(s) + SumSeq(Tail(s))

\* numpy round(x, 1) of the non-negative quotient n / d of tenths: to the
\* nearest tenth, a tie going to the even neighbour
np_round(n, d) ==
    LET q == n \div d
        r == n % d
    IN  IF 2 * r < d THEN q
        ELSE IF 2 * r > d THEN q + 1
        ELSE IF q % 2 = 0 THEN q ELSE q + 1

\* Series.shift(k): the value k rows back (k < 0: forward), NaN off the ends
shift(s, k) ==
    [ i \in 1..Len(s) |-> IF i - k >= 1 /\ i - k <= Len(s) THEN s[i - k] ELSE NaN ]

\* Series.rolling(window=w).mean().round(1), min_periods = w
rolling_mean_round(s, w) ==
    [ i \in 1..Len(s) |->
        IF i < w \/ (\E j \in (i - w + 1)..i : s[j] = NaN) THEN NaN
        ELSE np_round(SumSeq(SubSeq(s, i - w + 1, i)), w) ]

\* DataFrame.sort_values("date").reset_index(drop=True)
RECURSIVE sort_values(_)
sort_values(S) ==
    IF S = {} THEN <<>>
    ELSE LET first == CHOOSE r \in S : \A o \in S : r.date <= o.date
         IN  <<first>> \o sort_values(S \ {first})

column(t, name) == [ i \in 1..Len(t) |-> t[i][name] ]

\* df[name] = values
assign(t, name, values) == [ i \in 1..Len(t) |-> (name :> values[i]) @@ t[i] ]

\* dropna(how="all"): a row goes only when every cell is NaN
RECURSIVE dropna_how_all(_, _, _)
dropna_how_all(t, cols, i) ==
    IF i > Len(t) THEN <<>>
    ELSE (IF \A k \in 1..Len(cols) : t[i][cols[k]] = NaN THEN <<>> ELSE <<i>>)
         \o dropna_how_all(t, cols, i + 1)

\* DataFrame.dropna(): the index labels of the rows with no NaN cell
RECURSIVE dropna(_, _, _)
dropna(t, cols, i) ==
    IF i > Len(t) THEN <<>>
    ELSE (IF \E k \in 1..Len(cols) : t[i][cols[k]] = NaN THEN <<>> ELSE <<i>>)
         \o dropna(t, cols, i + 1)

----------------------------------------------------------------------------
(* preprocess.py *)

aggregate_daily(measurements) ==
    LET dates == { m.datetime[1] : m \in measurements }
        group(d) == { m \in measurements : m.datetime[1] = d }
        means == { [date |-> d, sum |-> SumValues(group(d)), count |-> Cardinality(group(d))]
                   : d \in dates }
        sorted == sort_values(means)
    IN  [ i \in 1..Len(sorted) |->
            [date |-> sorted[i].date, pm25 |-> np_round(sorted[i].sum, sorted[i].count)] ]

\* the week lag taken six rows back
add_lag_features_off_by_one(t) ==
    LET t1 == assign(t, "pm25_lag_1", shift(column(t, "pm25"), 1))
        t2 == assign(t1, "pm25_lag_2", shift(column(t1, "pm25"), 2))
    IN  assign(t2, "pm25_lag_7", shift(column(t2, "pm25"), 6))

add_lag_features(t) ==
    LET t1 == assign(t, "pm25_lag_1", shift(column(t, "pm25"), 1))
        t2 == assign(t1, "pm25_lag_2", shift(column(t1, "pm25"), 2))
    IN  assign(t2, "pm25_lag_7", shift(column(t2, "pm25"), 7))

\* the week average taken over six rows
add_rolling_averages_short_window(t) ==
    LET t1 == assign(t, "pm25_rolling_3", rolling_mean_round(column(t, "pm25"), 3))
    IN  assign(t1, "pm25_rolling_7", rolling_mean_round(column(t1, "pm25"), 6))

add_rolling_averages(t) ==
    LET t1 == assign(t, "pm25_rolling_3", rolling_mean_round(column(t, "pm25"), 3))
    IN  assign(t1, "pm25_rolling_7", rolling_mean_round(column(t1, "pm25"), 7))

add_calendar_features(t) ==
    LET tomorrow == [ i \in 1..Len(t) |-> t[i].date + 1 ]
        t1 == assign(t, "day_of_week", [ i \in 1..Len(t) |-> dayofweek(tomorrow[i]) ])
    IN  assign(t1, "month", [ i \in 1..Len(t) |-> month(tomorrow[i]) ])

add_target(t) == assign(t, TARGET_COLUMN, shift(column(t, "pm25"), -1))

columns_to_keep == FEATURE_COLUMNS \o <<TARGET_COLUMN>>

\* df[columns_to_keep].dropna().reset_index(drop=True), written by to_csv:
\* a header and, per kept row, its cells in header order
clean(t) ==
    LET keep == dropna(t, columns_to_keep, 1)
    IN  [ columns |-> columns_to_keep,
          rows |-> [ r \in 1..Len(keep) |->
                       [ k \in 1..Len(columns_to_keep) |-> t[keep[r]][columns_to_keep[k]] ] ] ]

----------------------------------------------------------------------------
(* train.py *)

\* position of a named column in a header
get_loc(columns, name) == CHOOSE k \in 1..Len(columns) : columns[k] = name

\* df[names] of a table read back from CSV
select(file, names) ==
    [ columns |-> names,
      rows |-> [ r \in 1..Len(file.rows) |->
                   [ k \in 1..Len(names) |-> file.rows[r][get_loc(file.columns, names[k])] ] ] ]

\* the cut taken at the test fraction
split_idx_test_fraction(n) == (n * TEST_SIZE_PCT) \div 100

split_idx(n) == (n * (100 - TEST_SIZE_PCT)) \div 100

iloc(s, from, to) == SubSeq(s, from, to)

----------------------------------------------------------------------------
(* The offline run: preprocess.py __main__, then train.py __main__ *)

NoFile == [columns |-> <<>>, rows |-> <<>>]

load_raw_data ==
    /\ pc = "load_raw_data"
    /\ df' = raw
    /\ pc' = "aggregate_daily"
    /\ UNCHANGED <<serving, collect, aqi>>
    /\ UNCHANGED <<raw, dropna_index, csv, X, y, X_train, X_test, y_train, y_test>>

AggregateDaily ==
    /\ pc = "aggregate_daily"
    /\ df' = aggregate_daily(df)
    /\ pc' = "add_lag_features"
    /\ UNCHANGED <<serving, collect, aqi>>
    /\ UNCHANGED <<raw, dropna_index, csv, X, y, X_train, X_test, y_train, y_test>>

AddLagFeatures ==
    /\ pc = "add_lag_features"
    /\ df' = add_lag_features(df)
    /\ pc' = "add_rolling_averages"
    /\ UNCHANGED <<serving, collect, aqi>>
    /\ UNCHANGED <<raw, dropna_index, csv, X, y, X_train, X_test, y_train, y_test>>

AddRollingAverages ==
    /\ pc = "add_rolling_averages"
    /\ df' = add_rolling_averages(df)
    /\ pc' = "add_calendar_features"
    /\ UNCHANGED <<serving, collect, aqi>>
    /\ UNCHANGED <<raw, dropna_index, csv, X, y, X_train, X_test, y_train, y_test>>

AddCalendarFeatures ==
    /\ pc = "add_calendar_features"
    /\ df' = add_calendar_features(df)
    /\ pc' = "add_target"
    /\ UNCHANGED <<serving, collect, aqi>>
    /\ UNCHANGED <<raw, dropna_index, csv, X, y, X_train, X_test, y_train, y_test>>

AddTarget ==
    /\ pc = "add_target"
    /\ df' = add_target(df)
    /\ pc' = "clean_and_save"
    /\ UNCHANGED <<serving, collect, aqi>>
    /\ UNCHANGED <<raw, dropna_index, csv, X, y, X_train, X_test, y_train, y_test>>

\* df keeps the full table here: the model reads it back to say which rows
\* were dropped; the program rebinds df to the cleaned table it also writes
clean_and_save ==
    /\ pc = "clean_and_save"
    /\ dropna_index' = dropna(df, columns_to_keep, 1)
    /\ csv' = clean(df)
    /\ pc' = "load_data"
    /\ UNCHANGED <<serving, collect, aqi>>
    /\ UNCHANGED <<raw, df, X, y, X_train, X_test, y_train, y_test>>

load_data ==
    /\ pc = "load_data"
    /\ X' = select(csv, FEATURE_COLUMNS)
    /\ y' = [ r \in 1..Len(csv.rows) |-> csv.rows[r][get_loc(csv.columns, TARGET_COLUMN)] ]
    /\ pc' = "chronological_split"
    /\ UNCHANGED <<serving, collect, aqi>>
    /\ UNCHANGED <<raw, df, dropna_index, csv, X_train, X_test, y_train, y_test>>

chronological_split ==
    /\ pc = "chronological_split"
    /\ LET n == Len(X.rows)
           at == split_idx(n)
       IN  /\ X_train' = iloc(X.rows, 1, at)
           /\ X_test' = iloc(X.rows, at + 1, n)
           /\ y_train' = iloc(y, 1, at)
           /\ y_test' = iloc(y, at + 1, n)
    /\ pc' = "train_model"
    /\ UNCHANGED <<serving, collect, aqi>>
    /\ UNCHANGED <<raw, df, dropna_index, csv, X, y>>

\* train_model, evaluate, show_feature_importance, save_model: fitting on no
\* sample raises, and the run ends before the artifact is written
TrainAndSave ==
    /\ pc = "train_model"
    /\ IF Len(X_train) = 0
       THEN pc' = "failed" /\ UNCHANGED artifact
       ELSE pc' = "done" /\ artifact' = "valid"
    /\ UNCHANGED <<proc, model, request, row_of_request, features, prediction, response, collect, aqi>>
    /\ UNCHANGED <<raw, df, dropna_index, csv, X, y, X_train, X_test, y_train, y_test>>

----------------------------------------------------------------------------
(* app.py *)

NoResponse ==
    [endpoint |-> "none", status |-> 0, model_loaded |-> FALSE,
     predicted_pm25 |-> NaN, aqi_category |-> "none", model_called |-> FALSE]

\* module level, lines 16-22: only FileNotFoundError is caught; any other
\* exception of joblib.load ends the import and with it the process
Startup ==
    /\ proc = "starting"
    /\ \/ artifact = "valid" /\ model' = "forest" /\ proc' = "serving"
       \/ artifact = "missing" /\ model' = "None" /\ proc' = "serving"
       \/ artifact = "corrupt" /\ model' = "unset" /\ proc' = "crashed"
    /\ UNCHANGED <<artifact, request, row_of_request, features, prediction, response, offline, collect, aqi>>

\* breakpoints taken as exclusive
pm25_to_aqi_category_exclusive(pm25) ==
    IF pm25 < 120 THEN "Good"
    ELSE IF pm25 < 354 THEN "Moderate"
    ELSE IF pm25 < 554 THEN "Unhealthy for Sensitive Groups"
    ELSE IF pm25 < 1504 THEN "Unhealthy"
    ELSE IF pm25 < 2504 THEN "Very Unhealthy"
    ELSE "Hazardous"

pm25_to_aqi_category(pm25) ==
    IF pm25 <= 120 THEN "Good"
    ELSE IF pm25 <= 354 THEN "Moderate"
    ELSE IF pm25 <= 554 THEN "Unhealthy for Sensitive Groups"
    ELSE IF pm25 <= 1504 THEN "Unhealthy"
    ELSE IF pm25 <= 2504 THEN "Very Unhealthy"
    ELSE "Hazardous"

health_check ==
    /\ proc = "serving"
    /\ response' = [NoResponse EXCEPT !.endpoint = "/health", !.status = 200,
                                      !.model_loaded = (model # "None")]
    /\ request' = "none"
    /\ row_of_request' = 0
    /\ features' = <<>>
    /\ prediction' = 0
    /\ UNCHANGED <<artifact, proc, model, offline, collect, aqi>>

\* PredictRequest: the Field constraints pydantic checks before predict() runs
PredictRequest(r) ==
    /\ r.pm25 >= 0 /\ r.pm25_lag_1 >= 0 /\ r.pm25_lag_2 >= 0 /\ r.pm25_lag_7 >= 0
    /\ r.pm25_rolling_3 >= 0 /\ r.pm25_rolling_7 >= 0
    /\ r.day_of_week >= 0 /\ r.day_of_week <= 6
    /\ r.month >= 1 /\ r.month <= 12

\* the week lag and the 3-day average listed in each other's place
arrange_swapped(r) ==
    << r.pm25, r.pm25_lag_1, r.pm25_lag_2, r.pm25_rolling_3,
       r.pm25_lag_7, r.pm25_rolling_7, r.day_of_week, r.month >>

\* lines 109-118: the order in which predict() lists the request's fields
arrange(r) ==
    << r.pm25, r.pm25_lag_1, r.pm25_lag_2, r.pm25_lag_7,
       r.pm25_rolling_3, r.pm25_rolling_7, r.day_of_week, r.month >>

\* no floor at zero
clamp_missing(value) == value

\* max(prediction, 0), in hundredths
clamp(value) == IF value > 0 THEN value ELSE 0

\* round(x, 1) of Python on a non-negative float of h hundredths, in tenths.
\* A float that prints as x.x5 lies a little to one side of the tie, so both
\* neighbours are possible there.
py_round(h) ==
    IF h % 10 = 5 THEN {h \div 10, h \div 10 + 1}
    ELSE IF h % 10 < 5 THEN {h \div 10}
    ELSE {h \div 10 + 1}

\* predict(request), with `out` what model.predict returns for the vector
predict(r, row, out) ==
    /\ proc = "serving"
    /\ request' = r
    /\ row_of_request' = row
    /\ IF ~PredictRequest(r)
       THEN /\ features' = <<>>
            /\ prediction' = 0
            /\ response' = [NoResponse EXCEPT !.endpoint = "/predict", !.status = 422]
       ELSE IF model = "None"
       THEN /\ features' = <<>>
            /\ prediction' = 0
            /\ response' = [NoResponse EXCEPT !.endpoint = "/predict", !.status = 503]
       ELSE /\ features' = arrange(r)
            /\ prediction' = out
            /\ \E rounded \in py_round(clamp(out)) :
                 response' = [NoResponse EXCEPT !.endpoint = "/predict", !.status = 200,
                                !.predicted_pm25 = rounded,
                                !.aqi_category = pm25_to_aqi_category(rounded),
                                !.model_called = TRUE]
    /\ UNCHANGED <<artifact, proc, model, offline, collect, aqi>>

\* a request that carries the values of row j of the training features
RowRequest(j) ==
    [ c \in { FEATURE_COLUMNS[k] : k \in 1..Len(FEATURE_COLUMNS) } |->
        X.rows[j][get_loc(X.columns, c)] ]

\* the example request of PredictRequest, in tenths
Example ==
    [pm25 |-> 450, pm25_lag_1 |-> 380, pm25_lag_2 |-> 420, pm25_lag_7 |-> 550,
     pm25_rolling_3 |-> 417, pm25_rolling_7 |-> 440, day_of_week |-> 3, month |-> 1]

\* the example with one field replaced by a value at or just off the edge of
\* its domain
Requests ==
    {Example}
    \cup { [Example EXCEPT ![c] = v] :
             c \in {"pm25", "pm25_lag_1", "pm25_lag_2", "pm25_lag_7",
                    "pm25_rolling_3", "pm25_rolling_7"},
             v \in {-1, 0} }
    \cup { [Example EXCEPT !.day_of_week = v] : v \in {-1, 0, 6, 7} }
    \cup { [Example EXCEPT !.month = v] : v \in {0, 1, 12, 13} }

\* raw model outputs, in hundredths: around zero and around two breakpoints
RawOutputs == { c + k : c \in {0, 1200, 3540}, k \in (-MaxRaw)..MaxRaw }

Predict == \E r \in Requests, out \in RawOutputs : predict(r, 0, out)

ServeRow ==
    \E j \in 1..Len(X.rows), out \in {-MaxRaw, MaxRaw} : predict(RowRequest(j), j, out)

----------------------------------------------------------------------------
(* collect_data.py *)

\* one pass of the while loop of fetch_from_openaq: the request fails, or
\* the page holds n records and the API reports `found` records in all
FetchPage ==
    /\ cpc = "fetching"
    /\ page <= MaxPages
    /\ \/ /\ fetched' = "raised"
          /\ cpc' = "returned"
          /\ UNCHANGED <<page, all_results>>
       \/ \E n \in 0..MaxPageSize, found \in 0..(MaxPageSize * MaxPages) :
            /\ page = MaxPages => (n = 0 \/ all_results + n >= found)
            /\ IF n = 0
               THEN cpc' = "after_loop" /\ UNCHANGED <<page, all_results>>
               ELSE /\ all_results' = all_results + n
                    /\ IF all_results + n >= found
                       THEN cpc' = "after_loop" /\ UNCHANGED page
                       ELSE cpc' = "fetching" /\ page' = page + 1
            /\ UNCHANGED fetched
    /\ UNCHANGED <<use_sample, generated, saved, offline, serving, aqi>>

\* lines 59-75: None for no record; else the records are flattened, which
\* raises KeyError on a record without date.utc
FetchReturn ==
    /\ cpc = "after_loop"
    /\ IF all_results = 0
       THEN fetched' = "None"
       ELSE fetched' \in {"df", "raised"}
    /\ cpc' = "returned"
    /\ UNCHANGED <<use_sample, page, all_results, generated, saved, offline, serving, aqi>>

\* what __main__ holds in df when it reaches save_raw_data
main_df(sample, got) ==
    IF sample THEN "synthetic"
    ELSE IF got = "None" THEN "synthetic"
    ELSE IF got = "raised" THEN "synthetic"
    ELSE "api"

\* no fallback for a fetch that returns None
main_generate_no_none_check(sample, got) ==
    IF sample THEN 1
    ELSE IF got = "raised" THEN 1
    ELSE 0

\* the number of calls of generate_sample_data __main__ makes
main_generate(sample, got) ==
    IF sample THEN 1
    ELSE IF got = "None" THEN 1
    ELSE IF got = "raised" THEN 1
    ELSE 0

\* __main__ with --sample: no fetch
MainSample ==
    /\ cpc = "main"
    /\ use_sample
    /\ generated' = generated + main_generate(use_sample, fetched)
    /\ saved' = main_df(use_sample, fetched)
    /\ cpc' = "done"
    /\ UNCHANGED <<use_sample, page, all_results, fetched, offline, serving, aqi>>

\* __main__ without --sample: enter fetch_from_openaq
MainFetch ==
    /\ cpc = "main"
    /\ ~use_sample
    /\ cpc' = "fetching"
    /\ UNCHANGED <<use_sample, page, all_results, fetched, generated, saved, offline, serving, aqi>>

\* __main__ after fetch_from_openaq returned or raised: fall back if needed,
\* then save_raw_data
MainSave ==
    /\ cpc = "returned"
    /\ generated' = generated + main_generate(use_sample, fetched)
    /\ saved' = main_df(use_sample, fetched)
    /\ cpc' = "done"
    /\ UNCHANGED <<use_sample, page, all_results, fetched, offline, serving, aqi>>

----------------------------------------------------------------------------
(* pm25_to_aqi_category on its own *)

Categorize ==
    /\ aqi_out = "none"
    /\ aqi_out' = pm25_to_aqi_category(aqi_in)
    /\ UNCHANGED <<aqi_in, offline, serving, collect>>

----------------------------------------------------------------------------
(* Initial states and specifications *)

InitOffline ==
    /\ pc = "load_raw_data"
    /\ df = <<>>
    /\ dropna_index = <<>>
    /\ csv = NoFile
    /\ X = NoFile
    /\ y = <<>>
    /\ X_train = <<>> /\ X_test = <<>> /\ y_train = <<>> /\ y_test = <<>>

InitServing ==
    /\ proc = "starting"
    /\ model = "unset"
    /\ request = "none"
    /\ row_of_request = 0
    /\ features = <<>>
    /\ prediction = 0
    /\ response = NoResponse

InitCollect ==
    /\ cpc = "main"
    /\ page = 1
    /\ all_results = 0
    /\ fetched = "pending"
    /\ generated = 0
    /\ saved = "nothing"

InitAqi == aqi_out = "none"

\* The raw file holds at least one measurement: collect_data.py saves only a
\* non-empty table.  No model has been trained yet.
Init ==
    /\ \E present \in (SUBSET Days) \ {{}}, p \in 1..MaxProfile :
         raw = Measurements(present, p)
    /\ InitOffline
    /\ artifact = "missing"
    /\ InitServing
    /\ InitCollect /\ use_sample = FALSE
    /\ InitAqi /\ aqi_in = 0

Next ==
    \/ load_raw_data
    \/ AggregateDaily
    \/ AddLagFeatures
    \/ AddRollingAverages
    \/ AddCalendarFeatures
    \/ AddTarget
    \/ clean_and_save
    \/ load_data
    \/ chronological_split
    \/ TrainAndSave
    \/ Startup
    \/ ServeRow

Spec == Init /\ [][Next]_vars

\* The serving process alone, over any state of the artifact
InitServe ==
    /\ raw = {}
    /\ InitOffline
    /\ artifact \in {"missing", "valid", "corrupt"}
    /\ InitServing
    /\ InitCollect /\ use_sample = FALSE
    /\ InitAqi /\ aqi_in = 0

NextServe == Startup \/ health_check \/ Predict

SpecServe == InitServe /\ [][NextServe]_vars

\* The collection entry point alone
InitCollection ==
    /\ raw = {}
    /\ InitOffline
    /\ artifact = "missing"
    /\ InitServing
    /\ InitCollect /\ use_sample \in BOOLEAN
    /\ InitAqi /\ aqi_in = 0

NextCollect == MainSample \/ MainFetch \/ FetchPage \/ FetchReturn \/ MainSave

SpecCollect == InitCollection /\ [][NextCollect]_vars

\* The categorisation alone, over every value up to MaxAqiInput
InitCategory ==
    /\ raw = {}
    /\ InitOffline
    /\ artifact = "missing"
    /\ InitServing
    /\ InitCollect /\ use_sample = FALSE
    /\ InitAqi /\ aqi_in \in 0..MaxAqiInput

NextCategory == Categorize

SpecAqi == InitCategory /\ [][NextCategory]_vars

----------------------------------------------------------------------------
(* Claims *)

Abs(n) == IF n < 0 THEN -n ELSE n

Ascending(t) == \A i \in 1..(Len(t) - 1) : t[i].date < t[i + 1].date

HasGap(t) == \E i \in 1..(Len(t) - 1) : t[i + 1].date > t[i].date + 1

LagsAdded == pc \notin {"load_raw_data", "aggregate_daily", "add_lag_features"}

RollingAdded == LagsAdded /\ pc # "add_rolling_averages"

CalendarAdded == RollingAdded /\ pc # "add_calendar_features"

TargetAdded == CalendarAdded /\ pc # "add_target"

Cleaned == TargetAdded /\ pc # "clean_and_save"

Loaded == Cleaned /\ pc # "load_data"

SplitDone == Loaded /\ pc # "chronological_split"

\* the row of the full feature table that row r of the processed file was
FeatureRow(r) == df[dropna_index[r]]

\* C1: the vector predict() hands to the model lists the request's fields in
\* the order of FEATURE_COLUMNS, which is the order of the columns written by
\* clean_and_save and selected by load_data; a request carrying the values of
\* a row of the feature table yields that training row, field for field.
C1_TrainServeAgreement ==
    /\ Cleaned => csv.columns = FEATURE_COLUMNS \o <<TARGET_COLUMN>>
    /\ Loaded => X.columns = FEATURE_COLUMNS
    /\ (response.endpoint = "/predict" /\ response.status = 200) =>
         /\ Len(features) = Len(FEATURE_COLUMNS)
         /\ \A k \in 1..Len(FEATURE_COLUMNS) : features[k] = request[FEATURE_COLUMNS[k]]
         /\ row_of_request > 0 =>
              /\ features = X.rows[row_of_request]
              /\ \A k \in 1..Len(FEATURE_COLUMNS) :
                   /\ features[k] = csv.rows[row_of_request][k]
                   /\ features[k] = FeatureRow(row_of_request)[FEATURE_COLUMNS[k]]

C1_Witness ==
    /\ response.endpoint = "/predict" /\ response.status = 200
    /\ row_of_request = 2
    /\ HasGap(df)

IsRoundedMean(v, sum, w) == 2 * Abs(w * v - sum) <= w

WindowSum(t, i, w) == SumSeq([ j \in 1..w |-> t[i - w + j].pm25 ])

\* C3: pm25_rolling_w at row i is the mean of pm25 over rows [i-w+1, i]
\* rounded to one decimal when w rows are available and undefined otherwise,
\* for w in {3, 7}; the value is fixed by the w values of the window alone.
C3_RollingIsWindowMean ==
    RollingAdded =>
      \A i \in 1..Len(df) :
        /\ IF i >= 3
           THEN /\ df[i].pm25_rolling_3 # NaN
                /\ IsRoundedMean(df[i].pm25_rolling_3, WindowSum(df, i, 3), 3)
           ELSE df[i].pm25_rolling_3 = NaN
        /\ IF i >= 7
           THEN /\ df[i].pm25_rolling_7 # NaN
                /\ IsRoundedMean(df[i].pm25_rolling_7, WindowSum(df, i, 7), 7)
           ELSE df[i].pm25_rolling_7 = NaN

\* a 7-row mean that is rounded up and a 3-row mean that is rounded down
C3_Witness ==
    /\ RollingAdded
    /\ Len(df) >= 8
    /\ HasGap(df)
    /\ 7 * df[8].pm25_rolling_7 > WindowSum(df, 8, 7)
    /\ 3 * df[8].pm25_rolling_3 < WindowSum(df, 8, 3)
    /\ df[8].pm25_rolling_7 # df[8].pm25_rolling_3

\* C4: of a daily series of N >= 8 records, clean_and_save drops the first 7
\* rows and the last row and no other: the N - 8 rows written are input rows
\* 7..N-2 (counted from 0) in their order.
C4_DropsFirstSevenAndLast ==
    (Cleaned /\ Len(df) >= 8) =>
      /\ Len(csv.rows) = Len(df) - 8
      /\ Len(dropna_index) = Len(df) - 8
      /\ \A r \in 1..Len(csv.rows) :
           /\ dropna_index[r] = r + 7
           /\ \A k \in 1..Len(columns_to_keep) :
                csv.rows[r][k] = df[r + 7][columns_to_keep[k]]

C4_Witness ==
    /\ Cleaned
    /\ Len(df) = 10
    /\ HasGap(df)
    /\ dropna_index = <<8, 9>>

\* C5: chronological_split cuts at floor(N * (1 - TEST_SIZE)): Train is rows
\* [0, split), Test is rows [split, N), in order; together they hold every
\* row once; every date of Train is earlier than every date of Test.
C5_ChronologicalSplit ==
    SplitDone =>
      LET n == Len(X.rows)
          at == Len(X_train)
      IN  /\ 100 * at <= (100 - TEST_SIZE_PCT) * n
          /\ (100 - TEST_SIZE_PCT) * n < 100 * (at + 1)
          /\ X_train \o X_test = X.rows
          /\ y_train \o y_test = y
          /\ Len(y_train) = at
          /\ \A a \in 1..at, b \in 1..Len(X_test) :
               FeatureRow(a).date < FeatureRow(at + b).date

C5_Witness ==
    /\ SplitDone
    /\ Len(X_train) = 1
    /\ Len(X_test) = 1
    /\ FeatureRow(2).date > FeatureRow(1).date + 1
    /\ HasGap(df)

\* the severity order of the categories
Severity(c) ==
    CASE c = "Good" -> 1
      [] c = "Moderate" -> 2
      [] c = "Unhealthy for Sensitive Groups" -> 3
      [] c = "Unhealthy" -> 4
      [] c = "Very Unhealthy" -> 5
      [] c = "Hazardous" -> 6

\* the categories whose interval holds v
CategoriesOf(v) ==
    { c \in {"Good", "Moderate", "Unhealthy for Sensitive Groups", "Unhealthy",
             "Very Unhealthy", "Hazardous"} :
        \/ c = "Good" /\ v <= 120
        \/ c = "Moderate" /\ 120 < v /\ v <= 354
        \/ c = "Unhealthy for Sensitive Groups" /\ 354 < v /\ v <= 554
        \/ c = "Unhealthy" /\ 554 < v /\ v <= 1504
        \/ c = "Very Unhealthy" /\ 1504 < v /\ v <= 2504
        \/ c = "Hazardous" /\ v > 2504 }

\* C6: pm25_to_aqi_category is a total step function with upper-inclusive
\* breakpoints 12.0, 35.4, 55.4, 150.4, 250.4: each value has one category,
\* and no smaller value has a more severe one.
C6_AqiStepFunction ==
    aqi_out # "none" =>
      /\ CategoriesOf(aqi_in) = {aqi_out}
      /\ \A u \in 0..aqi_in :
           Severity(pm25_to_aqi_category(u)) <= Severity(aqi_out)

C6_Witness == aqi_in = 355 /\ aqi_out = "Unhealthy for Sensitive Groups"

\* C7: when loading the artifact fails, because it is missing or because it
\* is corrupt, the process still starts, with no model; /health then reports
\* model_loaded = false and every /predict call that reaches predict()
\* answers 503, neither calling the model.
C7_LoadFailureIsHandled ==
    (artifact # "valid" /\ proc # "starting") =>
      /\ proc = "serving"
      /\ model = "None"
      /\ response.endpoint = "/health" =>
           (response.model_loaded = FALSE /\ ~response.model_called)
      /\ (response.endpoint = "/predict" /\ response.status # 422) =>
           (response.status = 503 /\ ~response.model_called)

\* C8, as amended: run without --sample, the entry point calls
\* generate_sample_data once and saves the synthetic data when
\* fetch_from_openaq returns None or raises, and does not call it when
\* fetch_from_openaq returns a table, that is when the source gave at least
\* one record and no request and no record failed.
C8_FallbackOnce ==
    /\ generated <= 1
    /\ (cpc = "done" /\ ~use_sample) =>
         /\ fetched \in {"None", "raised", "df"}
         /\ fetched \in {"None", "raised"} => (generated = 1 /\ saved = "synthetic")
         /\ fetched = "df" => (generated = 0 /\ saved = "api")
    /\ (cpc # "done") => (generated = 0 /\ saved = "nothing")

\* C8, as stated: as above, and whenever the source has returned at least
\* one record the synthetic generator is not called.
C8_GeneratorUnusedOnceRecordsCame ==
    /\ C8_FallbackOnce
    /\ (cpc = "done" /\ ~use_sample /\ all_results > 0) => generated = 0

\* records came on a first page and the second request failed
C8_Witness ==
    /\ cpc = "done" /\ ~use_sample
    /\ fetched = "raised" /\ all_results > 0 /\ page = 2
    /\ generated = 1 /\ saved = "synthetic"

\* C9: a successful /predict returns max(raw output, 0) rounded to one
\* decimal, which is never negative, and the category of that value.
C9_ClampedPrediction ==
    (response.endpoint = "/predict" /\ response.status = 200) =>
      /\ response.predicted_pm25 >= 0
      /\ prediction <= 0 => response.predicted_pm25 = 0
      /\ prediction > 0 => 2 * Abs(10 * response.predicted_pm25 - prediction) <= 10
      /\ response.aqi_category = pm25_to_aqi_category(response.predicted_pm25)

\* a negative output is answered with 0.0
C9_Witness ==
    /\ response.endpoint = "/predict" /\ response.status = 200
    /\ prediction < 0
    /\ response.predicted_pm25 = 0
    /\ response.aqi_category = "Good"

\* C10: a defined pm25_next_day is the pm25 of the record of the calendar day
\* after the row's date, the day its day_of_week and month describe.
C10_TargetIsNextCalendarDay ==
    TargetAdded =>
      \A i \in 1..Len(df) :
        /\ df[i].day_of_week = dayofweek(df[i].date + 1)
        /\ df[i].month = month(df[i].date + 1)
        /\ df[i].pm25_next_day # NaN =>
             \E j \in 1..Len(df) :
               /\ df[j].date = df[i].date + 1
               /\ df[j].pm25 = df[i].pm25_next_day

====
